---- MODULE Spec2Model ----
(***************************************************************************)
(* A model of anilisttools' list mirroring (src/mirror_list.py).           *)
(*                                                                         *)
(* mirror_list reads the source and the destination user's list from the   *)
(* remote service, then walks the source list (create / update pass) and   *)
(* the destination list (delete pass), routing every pending write through *)
(* confirm_entry_diff.  One action models one loop iteration together with *)
(* everything the iteration calls (the hook, the confirmation, the prompt, *)
(* the write request and the service applying it).                         *)
(*                                                                         *)
(* A list entry is a record with the fields the equality check and the     *)
(* write requests read: id, mediaId, status, score, progress,              *)
(* hiddenFromStatusLists and customLists.  The remaining wire fields       *)
(* (startedAt, completedAt, notes, repeat) are plain values compared and   *)
(* copied exactly like score and progress; media is a function of mediaId  *)
(* and is therefore equal on both sides.                                   *)
(*                                                                         *)
(* safe_post_request and depaginated_request (src/request_utils.py) are    *)
(* modelled on their own, one action per response that arrives, with a log *)
(* of the requests, responses and sleeps (SpecRequests; SpecRetry with the *)
(* service answering in the end).  In the runs of mirror_list the          *)
(* service answers every request at once, and correctly unless the run is  *)
(* one of SpecFaulty.                                                      *)
(*                                                                         *)
(* The cache decorator of src/request_utils.py (SpecCache) and the         *)
(* confirmation of src/amq_list_syncer.py with the request it guards       *)
(* (SpecAmq) are modelled on their own as well.                            *)
(***************************************************************************)
EXTENDS Integers, Sequences, FiniteSets, TLC

\* ------------------------------------------------------------ bounds
MaxMedia == 2
MaxScore == 1
MaxProgress == 2
ServedPerPage == 1            \* entries the service puts on one page of a list
MaxPosts == 3                 \* requests sent by one depaginated_request call
MaxLayers == 2                \* single-key layers around a paged object
MaxItems == 2                 \* items on one page of a depaginated_request
MaxRetryAfter == 1            \* seconds in a Retry-After header

MediaIds == 1..MaxMedia

\* ------------------------------------------------------------ constants
MAX_PAGE_SIZE == 50

ALL_STATUSES == <<"CURRENT", "COMPLETED", "PAUSED", "DROPPED", "PLANNING", "REPEATING">>

\* Python's None.
None == [none |-> TRUE]

Range(s) == {s[k] : k \in DOMAIN s}

\* ------------------------------------------------------------ strings
\* A status string as typed by the caller is modelled by the string itself;
\* str.upper() is the map below on every spelling the model uses.
Upper(s) ==
    CASE s = "current" -> "CURRENT"
      [] s = "completed" -> "COMPLETED"
      [] s = "planning" -> "PLANNING"
      [] s = "paused" -> "PAUSED"
      [] s = "dropped" -> "DROPPED"
      [] s = "repeating" -> "REPEATING"
      [] OTHER -> s

\* An answer typed at a prompt is a sequence of characters.
LowerChar(c) ==
    CASE c = "Y" -> "y"
      [] c = "F" -> "f"
      [] c = "S" -> "s"
      [] c = "Q" -> "q"
      [] c = "N" -> "n"
      [] OTHER -> c

Lower(s) == [k \in DOMAIN s |-> LowerChar(s[k])]

RECURSIVE LStrip(_)
LStrip(s) == IF s # <<>> /\ Head(s) = " " THEN LStrip(Tail(s)) ELSE s

RECURSIVE RStrip(_)
RStrip(s) ==
    IF s # <<>> /\ s[Len(s)] = " " THEN RStrip(SubSeq(s, 1, Len(s) - 1)) ELSE s

Strip(s) == RStrip(LStrip(s))

StartsWith(s, c) == s # <<>> /\ s[1] = c

\* ------------------------------------------------------------ state
VARIABLES
    pc,                       \* where mirror_list is: start, pass1, pass2, done, raised
    from_labels,              \* custom list names of the source user
    to_labels,                \* custom list names of the destination user
    from_remote,              \* source user's list on the service: mediaId -> entry | None
    to_remote,                \* destination user's list on the service
    next_id,                  \* next entry id the service assigns
    status_map,               \* argument, then its sanitised rebinding
    ignore_to_user_statuses,  \* argument, then its sanitised rebinding
    delete_unmapped,          \* argument
    entry_factory,            \* argument: None, or "factory"
    verbosity,                \* argument: None, or [verbose, require_approval]
    to_user_oauth_token,
    from_user_list,
    mapped_media_ids,
    to_user_list,
    to_user_list_by_media_id,
    i,                        \* index into from_user_list (pass 1)
    j,                        \* index into to_user_list (pass 2)
    show_title,               \* mirror_list's local: None while unbound
    run,                      \* 1, or 2 for a second run with the same arguments
    log,                      \* what the run did: reads, hook calls, confirmations, writes
    from_user,                \* argument: the source user's name
    oauth_users,              \* the users oauth.get_oauth_token returns a token for
    from_second,              \* media the source list holds a second entry for
    to_second,                \* media the destination list holds a second entry for
    total_queries,            \* safe_post_request.total_queries
    tpc,                      \* where depaginated_request is: idle, waiting, returned, raised
    response,                 \* safe_post_request's response, None before the first
    page_num,
    out_list,
    max_count,                \* argument of depaginated_request, None or a number
    result,                   \* what depaginated_request returned, None if nothing
    net,                      \* the requests sent, the responses received, the sleeps
    faulty,                   \* the service may fail a write request
    cpc,                      \* where a module using cache() is: idle, import, ready, raised
    cache_file,               \* the cache file: missing, corrupt, or json with its dict
    cache,                    \* the decorator's dict: signature -> None | [value, expiry]
    max_age,                  \* argument of cache()
    now,                      \* datetime.now()
    calls,                    \* the calls of new_func so far
    apc,                      \* where amq_list_syncer is: idle, sync, raised
    force,                    \* amq_list_syncer's args.force
    stdin,                    \* the answers the operator will type
    confirmations             \* amq_list_syncer's confirmations and whether the request was sent

\* What a run of mirror_list finds around it and never changes.
environment == <<from_user, oauth_users, from_second, to_second, faulty>>

\* The state of a module decorated with request_utils.cache.
caching == <<cpc, cache_file, cache, max_age, now, calls>>

\* The state of one guarded write of amq_list_syncer.
syncer == <<apc, force, stdin, confirmations>>

\* The state of a depaginated_request call, the counter apart.
transport == <<tpc, response, page_num, out_list, max_count, result, net>>

vars == <<pc, from_labels, to_labels, from_remote, to_remote, next_id, status_map,
          ignore_to_user_statuses, delete_unmapped, entry_factory, verbosity,
          to_user_oauth_token, from_user_list, mapped_media_ids, to_user_list,
          to_user_list_by_media_id, i, j, show_title, run, log,
          environment, caching, syncer, total_queries, transport>>


\* ------------------------------------------------------------ entries
Entry(id, mediaId, status, score, progress, hidden, customLists) ==
    [id |-> id, mediaId |-> mediaId, status |-> status, score |-> score,
     progress |-> progress, hiddenFromStatusLists |-> hidden,
     customLists |-> customLists]

\* The labels a customLists dict has enabled, as add/update_list_entry list them.
\* The list's order is the dict's key order; the service reads it as a set.
EnabledLabels(customLists) == {l \in DOMAIN customLists : customLists[l]}

\* Mutant: add_list_entry sends the id of the entry it was handed.
AddListEntryVars_WithId(list_entry) ==
    [k \in DOMAIN list_entry |->
        IF k = "customLists" THEN EnabledLabels(list_entry.customLists)
        ELSE list_entry[k]]

\* query_vars of add_list_entry: every key but id, customLists as a list.
AddListEntryVars(list_entry) ==
    [k \in DOMAIN list_entry \ {"id"} |->
        IF k = "customLists" THEN EnabledLabels(list_entry.customLists)
        ELSE list_entry[k]]

\* query_vars of update_list_entry: every key, customLists as a list.
UpdateListEntryVars(list_entry) ==
    [k \in DOMAIN list_entry |->
        IF k = "customLists" THEN EnabledLabels(list_entry.customLists)
        ELSE list_entry[k]]

\* query_vars of delete_list_entry.
DeleteListEntryVars(entry_id) == [id |-> entry_id]

\* ------------------------------------------------------------ the service
\* The entries of a user's list (a map mediaId -> entry | None).
Entries(remote) == {remote[m] : m \in DOMAIN remote} \ {None}

\* mediaList(..., sort: [SCORE_DESC, MEDIA_ID])
Precedes(a, b) ==
    \/ a.score > b.score
    \/ a.score = b.score /\ a.mediaId < b.mediaId

RECURSIVE SortEntries(_)
SortEntries(S) ==
    IF S = {} THEN <<>>
    ELSE LET a == CHOOSE x \in S : \A y \in S \ {x} : Precedes(x, y)
         IN <<a>> \o SortEntries(S \ {a})

\* A Python tuple or set argument that may also be None.
Some(S) == [some |-> S]

\* get_user_list: the user's entries with a status in status_in (None: all of
\* them), in the service's order.
GetUserList(remote, status_in) ==
    SortEntries({e \in Entries(remote) : status_in = None \/ e.status \in status_in.some})

\* A list in which the media of second appear twice, as two entries with their
\* own entry ids.
RECURSIVE WithSecond(_, _)
WithSecond(list, second) ==
    IF list = <<>> THEN <<>>
    ELSE LET e == Head(list)
         IN (IF e.mediaId \in second THEN <<e, [e EXCEPT !.id = @ + 100]>> ELSE <<e>>)
            \o WithSecond(Tail(list), second)

\* The pages depaginated_request asks for to fetch a list of n entries.
NumPages(n) ==
    IF n = 0 THEN 1 ELSE (n + ServedPerPage - 1) \div ServedPerPage

\* SaveMediaListEntry: creates the entry for mediaId, or rewrites the one that
\* exists; the stored customLists is a dict over the owner's own label names.
SaveMediaListEntry(remote, labels, query_vars, new_id) ==
    LET m == query_vars.mediaId
        id == IF "id" \in DOMAIN query_vars THEN query_vars.id
              ELSE IF remote[m] # None THEN remote[m].id
              ELSE new_id
    IN [remote EXCEPT ![m] =
            Entry(id, m, query_vars.status, query_vars.score, query_vars.progress,
                  query_vars.hiddenFromStatusLists,
                  [l \in labels |-> l \in query_vars.customLists])]

\* DeleteMediaListEntry
DeleteMediaListEntry(remote, entry_id) ==
    [m \in DOMAIN remote |->
        IF remote[m] # None /\ remote[m].id = entry_id THEN None ELSE remote[m]]

\* ------------------------------------------------------------ confirmation
RequireApproval(v) == v # None /\ v.require_approval

\* diff_fields of confirm_entry_diff: dict.get on both sides.
DiffFields(old_entry, new_entry) ==
    {field \in DOMAIN old_entry \cup DOMAIN new_entry :
        IF field \in DOMAIN old_entry /\ field \in DOMAIN new_entry
        THEN old_entry[field] # new_entry[field]
        ELSE TRUE}

\* Mutant: an update is major from four differing fields on.
MajorChange_Four(old_entry, new_entry) ==
    IF old_entry = None \/ new_entry = None THEN TRUE
    ELSE \/ old_entry.status # new_entry.status
         \/ Cardinality(DiffFields(old_entry, new_entry)) > 3

\* major_change of confirm_entry_diff (lines 307-315).
MajorChange(old_entry, new_entry) ==
    IF old_entry = None \/ new_entry = None THEN TRUE
    ELSE \/ old_entry.status # new_entry.status
         \/ Cardinality(DiffFields(old_entry, new_entry)) >= 3

\* Mutant: a skipped operation is approved.
AskForConfirmOrSkip_SkipApproves(v, typed) ==
    LET confirm == Lower(Strip(typed))
    IN IF v # None /\ ~v.require_approval
       THEN [ret |-> "true", verbosity |-> v, prompted |-> FALSE, answer |-> <<>>]
       ELSE IF StartsWith(confirm, "f")
       THEN [ret |-> "true", verbosity |-> [v EXCEPT !.require_approval = FALSE],
             prompted |-> TRUE, answer |-> confirm]
       ELSE IF StartsWith(confirm, "y") \/ StartsWith(confirm, "s")
       THEN [ret |-> "true", verbosity |-> v, prompted |-> TRUE, answer |-> confirm]
       ELSE [ret |-> "raise", verbosity |-> v, prompted |-> TRUE, answer |-> confirm]

\* Mutant: an unrecognised answer skips the operation instead of raising.
AskForConfirmOrSkip_QuitSkips(v, typed) ==
    LET confirm == Lower(Strip(typed))
    IN IF v # None /\ ~v.require_approval
       THEN [ret |-> "true", verbosity |-> v, prompted |-> FALSE, answer |-> <<>>]
       ELSE IF StartsWith(confirm, "f")
       THEN [ret |-> "true", verbosity |-> [v EXCEPT !.require_approval = FALSE],
             prompted |-> TRUE, answer |-> confirm]
       ELSE IF StartsWith(confirm, "y")
       THEN [ret |-> "true", verbosity |-> v, prompted |-> TRUE, answer |-> confirm]
       ELSE [ret |-> "false", verbosity |-> v, prompted |-> TRUE, answer |-> confirm]

\* ask_for_confirm_or_skip: ret is "true", "false" or "raise".
AskForConfirmOrSkip(v, typed) ==
    IF v # None /\ ~v.require_approval
    THEN [ret |-> "true", verbosity |-> v, prompted |-> FALSE, answer |-> <<>>]
    ELSE LET confirm == Lower(Strip(typed))
         IN IF StartsWith(confirm, "y")
            THEN [ret |-> "true", verbosity |-> v, prompted |-> TRUE, answer |-> confirm]
            ELSE IF StartsWith(confirm, "f")
            THEN [ret |-> "true",
                  verbosity |-> IF v # None THEN [v EXCEPT !.require_approval = FALSE]
                                ELSE v,
                  prompted |-> TRUE, answer |-> confirm]
            ELSE IF StartsWith(confirm, "s")
            THEN [ret |-> "false", verbosity |-> v, prompted |-> TRUE, answer |-> confirm]
            ELSE [ret |-> "raise", verbosity |-> v, prompted |-> TRUE, answer |-> confirm]

\* Mutant: every difference is approved without asking.
ConfirmEntryDiff_NoGate(old_entry, new_entry, v, typed) ==
    IF new_entry = old_entry
    THEN [ret |-> "false", verbosity |-> v, prompted |-> FALSE, answer |-> <<>>]
    ELSE [ret |-> "true", verbosity |-> v, prompted |-> FALSE, answer |-> <<>>]

\* confirm_entry_diff
ConfirmEntryDiff(old_entry, new_entry, v, typed) ==
    IF new_entry = old_entry
    THEN [ret |-> "false", verbosity |-> v, prompted |-> FALSE, answer |-> <<>>]
    ELSE IF ~(v # None /\ (v.verbose \/ v.require_approval))
    THEN [ret |-> "true", verbosity |-> v, prompted |-> FALSE, answer |-> <<>>]
    ELSE IF ~v.require_approval \/ ~MajorChange(old_entry, new_entry)
    THEN [ret |-> "true", verbosity |-> v, prompted |-> FALSE, answer |-> <<>>]
    ELSE AskForConfirmOrSkip(v, typed)


\* ------------------------------------------------------------ the hook
Factory == [factory |-> TRUE]

\* What entry_factory(from_entry, to_entry) may return: None, the entry it was
\* handed (the source's when there is one), or that entry with its progress
\* changed.
HookResults(from_entry, to_entry) ==
    LET base == IF from_entry # None THEN from_entry ELSE to_entry
    IN {None, base, [base EXCEPT !.progress = (@ + 1) % (MaxProgress + 1)]}

\* ------------------------------------------------------------ log events
\* A call of entry_factory and what it returned.
HookEvent(m, from_entry, to_entry, made) ==
    [kind |-> "hook", mediaId |-> m, from |-> from_entry, to |-> to_entry,
     made |-> made, pass |-> pc, run |-> run]

\* A call of confirm_entry_diff: what it was asked, whether approval was
\* required before and after it, whether it prompted, the answer (stripped and
\* lowered) and what it returned ("true", "false" or "raise").
ConfirmEvent(op, m, old_entry, new_entry, v, c, r) ==
    [kind |-> "confirm", op |-> op, mediaId |-> m, old |-> old_entry,
     new |-> new_entry, require_approval |-> RequireApproval(v),
     after |-> RequireApproval(c.verbosity),
     prompted |-> c.prompted, answer |-> c.answer, ret |-> c.ret,
     pass |-> pc, run |-> r]

\* A page of a user's list requested by get_user_list.
ReadEvent(username, page, pages, token, r) ==
    [kind |-> "read", user |-> username, page |-> page, perPage |-> MAX_PAGE_SIZE,
     hasNextPage |-> page < pages, token |-> token, mediaId |-> 0,
     pass |-> "start", run |-> r]

\* Mutant: get_user_list asks for the first page only.
ReadEvents_FirstPage(username, list, token, r) ==
    <<ReadEvent(username, 1, NumPages(Len(list)), token, r)>>

\* The requests of one get_user_list call, page after page.
ReadEvents(username, list, token, r) ==
    [p \in 1..NumPages(Len(list)) |->
        ReadEvent(username, p, NumPages(Len(list)), token, r)]

\* The write requests among some events.
Writes(events) == {k \in DOMAIN events : events[k].kind = "write"}

\* A write request sent to the service, and how the service answered it.
WriteEvent(op, m, query_vars, token, r, answer) ==
    [kind |-> "write", op |-> op, mediaId |-> m, vars |-> query_vars,
     token |-> token, pass |-> pc, run |-> r, answer |-> answer]

\* How the service may answer a write request: "ok", "error" (the request
\* fails and safe_post_request raises) and, for a delete, "not_deleted" (the
\* response says deleted: false).
ServiceAnswers == IF faulty THEN {"ok", "error", "not_deleted"} ELSE {"ok"}

\* Mutant: a failed write is not noticed.
WriteRaises_Never(op, answer) == FALSE

\* add_list_entry and update_list_entry raise what safe_post_request raises;
\* delete_list_entry raises as well when the entry was not deleted (line 282).
WriteRaises(op, answer) ==
    answer = "error" \/ (op = "Delete" /\ answer = "not_deleted")

\* Whether the service applied the write.
WriteApplied(op, answer) ==
    answer = "ok" \/ (op # "Delete" /\ answer = "not_deleted")

\* ------------------------------------------------------------ one pending write
\* confirm_entry_diff(old_entry, new_entry), then the verbose print, then the
\* request (add_list_entry, update_list_entry or delete_list_entry) and the
\* service applying it.  typed is what the operator types if prompted; title
\* is mirror_list's show_title, None while it is unbound; answer is how the
\* service answers the request.
Execute(op, m, old_entry, new_entry, typed, title, answer) ==
    LET c == ConfirmEntryDiff(old_entry, new_entry, verbosity, typed)
        cev == <<ConfirmEvent(op, m, old_entry, new_entry, verbosity, c, run)>>
        query_vars == IF op = "Create" THEN AddListEntryVars(new_entry)
                      ELSE IF op = "Update" THEN UpdateListEntryVars(new_entry)
                      ELSE DeleteListEntryVars(old_entry.id)
        stay == [raised |-> FALSE, events |-> cev, verbosity |-> c.verbosity,
                 remote |-> to_remote, next_id |-> next_id]
    IN IF c.ret = "raise" THEN [stay EXCEPT !.raised = TRUE]
       ELSE IF c.ret = "false" THEN stay
       ELSE IF verbosity = None THEN [stay EXCEPT !.raised = TRUE]
       ELSE IF verbosity.verbose /\ title = None THEN [stay EXCEPT !.raised = TRUE]
       ELSE [raised |-> WriteRaises(op, answer),
             events |-> cev \o <<WriteEvent(op, m, query_vars, to_user_oauth_token,
                                            run, answer)>>,
             verbosity |-> c.verbosity,
             remote |-> IF ~WriteApplied(op, answer) THEN to_remote
                        ELSE IF op = "Delete"
                        THEN DeleteMediaListEntry(to_remote, old_entry.id)
                        ELSE SaveMediaListEntry(to_remote, to_labels, query_vars, next_id),
             next_id |-> IF op = "Create" /\ WriteApplied(op, answer)
                         THEN next_id + 1 ELSE next_id]

\* An iteration that does nothing (continue).
Continue ==
    [raised |-> FALSE, events |-> <<>>, verbosity |-> verbosity,
     remote |-> to_remote, next_id |-> next_id]

\* Mutant: the delete pass runs whatever delete_unmapped says.
AfterPass1_AlwaysDelete(from_list, to_list, idx) ==
    IF idx < Len(from_list) THEN [pc |-> "pass1", i |-> idx + 1, j |-> 1]
    ELSE IF Len(to_list) > 0 THEN [pc |-> "pass2", i |-> idx + 1, j |-> 1]
    ELSE [pc |-> "done", i |-> idx + 1, j |-> 1]

\* Where the run is after item idx of pass 1 (lines 78, 133-136) and of pass 2.
AfterPass1(from_list, to_list, idx) ==
    IF idx < Len(from_list) THEN [pc |-> "pass1", i |-> idx + 1, j |-> 1]
    ELSE IF delete_unmapped /\ Len(to_list) > 0 THEN [pc |-> "pass2", i |-> idx + 1, j |-> 1]
    ELSE [pc |-> "done", i |-> idx + 1, j |-> 1]

AfterPass2(to_list, idx) ==
    IF idx < Len(to_list) THEN [pc |-> "pass2", i |-> i, j |-> idx + 1]
    ELSE [pc |-> "done", i |-> i, j |-> idx + 1]


\* ------------------------------------------------------------ mirror_list
\* Lines 60-65: the default map and the case sanitising.
SanitizeStatusMap(sm) ==
    LET given == IF sm = None THEN [s \in Range(ALL_STATUSES) |-> s] ELSE sm
    IN [k \in {Upper(f) : f \in DOMAIN given} |->
            Upper(given[CHOOSE f \in DOMAIN given : Upper(f) = k])]

SanitizeIgnore(ig) == IF ig = None THEN {} ELSE {Upper(s) : s \in ig.some}

\* oauth.get_oauth_token(username)
GetOauthToken(username) == [token_of |-> username]

\* Mutant: get_oauth_token never raises.
OauthRaises_Never(username) == FALSE

\* get_oauth_token raises where it can get no token for the user.
OauthRaises(username) == username \notin oauth_users

\* Lines 208-213 of get_user_list: the token if use_oauth and there is one,
\* None if get_oauth_token raises.
ReadToken(username, use_oauth) ==
    IF use_oauth /\ ~OauthRaises(username) THEN GetOauthToken(username) ELSE None

\* The Viewer queries get_oauth_token sends to check the tokens it returns:
\* one at line 68, one in each get_user_list that asks for a token.
ViewerQueries ==
    1 + (IF from_user = "robert" /\ from_user \in oauth_users THEN 1 ELSE 0) + 1

\* Mutant: the status is written as fetched.
RemapStatus_Identity(from_list_item, sm) == from_list_item

\* Line 84: the status remapped.
RemapStatus(from_list_item, sm) ==
    [from_list_item EXCEPT !.status = sm[from_list_item.status]]

\* Mutant: the protected status lists are not consulted.
IsProtected_Never(to_list_item, ignored) == FALSE

\* Lines 106 and 137: the destination entry is in a protected status list.
IsProtected(to_list_item, ignored) == to_list_item.status \in ignored

\* Mutant: the source entry keeps its own id.
WithEntryId_Keep(from_list_item, to_list_item) == from_list_item

\* Line 125: the source entry takes the destination entry's id.
WithEntryId(from_list_item, to_list_item) ==
    [from_list_item EXCEPT !.id = to_list_item.id]

\* What one iteration leaves behind.
Apply(out, pos) ==
    /\ log' = log \o out.events
    /\ total_queries' = total_queries + Cardinality(Writes(out.events))
    /\ verbosity' = out.verbosity
    /\ to_remote' = out.remote
    /\ next_id' = out.next_id
    /\ IF out.raised
       THEN pc' = "raised" /\ UNCHANGED <<i, j>>
       ELSE pc' = pos.pc /\ i' = pos.i /\ j' = pos.j

\* What the operator may type at a prompt.
Answers == {<<"y">>, <<" ", "Y">>, <<"f">>, <<"s">>, <<"q">>, <<>>}

\* Whether the iteration sent a write request that the service answered so.
Answered(out, answer) ==
    IF Writes(out.events) = {} THEN answer = "ok"
    ELSE \A k \in Writes(out.events) :
            /\ out.events[k].answer = answer
            /\ answer = "not_deleted" => out.events[k].op = "Delete"

\* Mutant: a hook returning None leaves the destination entry alone.
MirrorOp_KeepUnmade(is_new, protected, final) ==
    IF protected \/ final = None THEN "None"
    ELSE IF is_new THEN "Create" ELSE "Update"

\* Lines 86-127: what the create / update pass does about a source entry,
\* final being the entry to write (the hook's if there is a hook).
MirrorOp(is_new, protected, final) ==
    IF is_new THEN IF final = None THEN "None" ELSE "Create"
    ELSE IF protected THEN "None"
    ELSE IF final = None THEN "Delete" ELSE "Update"

\* Mutant: the hook's entry is ignored in the delete pass.
DeleteOp_AlwaysDelete(skipped, hooked) ==
    IF skipped THEN "None" ELSE "Delete"

\* Lines 137-152: what the delete pass does about a destination entry,
\* hooked telling that a hook returned an entry for it.
DeleteOp(skipped, hooked) ==
    IF skipped THEN "None" ELSE IF hooked THEN "Update" ELSE "Delete"

\* Whether the iteration showed a prompt.
Prompted(out) == \E k \in DOMAIN out.events :
                    out.events[k].kind = "confirm" /\ out.events[k].prompted

\* Lines 55-75: the "is this the right list" question, the sanitising, the
\* token and the two reads.
Start ==
    /\ pc = "start"
    /\ \E typed \in Answers :
        LET confirm == Lower(Strip(typed))
            asked == RequireApproval(verbosity)
            cancelled == asked /\ ~StartsWith(confirm, "y")
            cev == IF asked
                   THEN <<[kind |-> "confirm", op |-> "Start", mediaId |-> 0,
                           old |-> None, new |-> None, require_approval |-> TRUE,
                           after |-> TRUE, prompted |-> TRUE, answer |-> confirm,
                           ret |-> IF cancelled THEN "raise" ELSE "true",
                           pass |-> pc, run |-> run]>>
                   ELSE <<>>
            sm == SanitizeStatusMap(status_map)
            from_list == WithSecond(GetUserList(from_remote, Some(DOMAIN sm)), from_second)
            to_list == WithSecond(GetUserList(to_remote, None), to_second)
            reads == ReadEvents(from_user, from_list,
                                ReadToken(from_user, from_user = "robert"), run)
                     \o ReadEvents("to_user", to_list, ReadToken("to_user", TRUE), run)
            by_media_id == [m \in {e.mediaId : e \in Range(to_list)} |->
                               CHOOSE e \in Range(to_list) : e.mediaId = m]
            pos == AfterPass1(from_list, to_list, 0)
        IN /\ asked \/ typed = <<>>
           /\ IF cancelled \/ OauthRaises("to_user")
              THEN /\ pc' = "raised"
                   /\ log' = log \o cev
                   /\ UNCHANGED <<status_map, ignore_to_user_statuses,
                                  to_user_oauth_token, from_user_list, mapped_media_ids,
                                  to_user_list, to_user_list_by_media_id, i, j,
                                  total_queries>>
              ELSE /\ log' = log \o cev \o reads
                   /\ total_queries' = total_queries + ViewerQueries + Len(reads)
                   /\ status_map' = sm
                   /\ ignore_to_user_statuses' = SanitizeIgnore(ignore_to_user_statuses)
                   /\ to_user_oauth_token' = GetOauthToken("to_user")
                   /\ from_user_list' = from_list
                   /\ mapped_media_ids' = {e.mediaId : e \in Range(from_list)}
                   /\ to_user_list' = to_list
                   /\ to_user_list_by_media_id' = by_media_id
                   /\ IF Len(to_list) # Cardinality(DOMAIN by_media_id)
                      THEN pc' = "raised" /\ UNCHANGED <<i, j>>
                      ELSE pc' = pos.pc /\ i' = pos.i /\ j' = pos.j
    /\ UNCHANGED <<from_labels, to_labels, from_remote, to_remote, next_id,
                   delete_unmapped, entry_factory, verbosity, show_title, run,
                   environment, caching, syncer, transport>>

\* The hook's possible answers where the iteration calls it, None where not.
HookChoices(called, from_entry, to_entry) ==
    IF called THEN HookResults(from_entry, to_entry) ELSE {None}

\* Lines 78-130: one iteration of the create / update pass.
MirrorStep ==
    /\ pc = "pass1"
    /\ LET item == from_user_list[i]
           m == item.mediaId
           title == IF verbosity # None /\ verbosity.verbose THEN [title |-> m]
                    ELSE show_title
           \* line 84
           from_list_item == RemapStatus(item, status_map)
           is_new == m \notin DOMAIN to_user_list_by_media_id
           to_list_item == IF is_new THEN None ELSE to_user_list_by_media_id[m]
           protected == ~is_new /\ IsProtected(to_list_item, ignore_to_user_statuses)
           hook_called == verbosity # None /\ entry_factory # None /\ ~protected
           pos == AfterPass1(from_user_list, to_user_list, i)
       IN \E made \in HookChoices(hook_called, from_list_item, to_list_item) :
          \E typed \in Answers, answer \in ServiceAnswers :
            LET hev == IF hook_called
                       THEN <<HookEvent(m, from_list_item, to_list_item, made)>>
                       ELSE <<>>
                final == IF hook_called THEN made ELSE from_list_item
                op == MirrorOp(is_new, protected, final)
                new_entry == IF op = "Create" THEN final
                             ELSE IF op = "Update" THEN WithEntryId(final, to_list_item)
                             ELSE None
                x == IF verbosity = None THEN [Continue EXCEPT !.raised = TRUE]
                     ELSE IF op = "None" THEN Continue
                     ELSE Execute(op, m, to_list_item, new_entry, typed, title, answer)
                out == [x EXCEPT !.events = hev \o @]
            IN /\ Prompted(out) \/ typed = <<>>
               /\ Answered(out, answer)
               /\ show_title' = title
               /\ Apply(out, pos)
    /\ UNCHANGED <<from_labels, to_labels, from_remote, status_map,
                   ignore_to_user_statuses, delete_unmapped, entry_factory,
                   to_user_oauth_token, from_user_list, mapped_media_ids, to_user_list,
                   to_user_list_by_media_id, run, environment, caching, syncer, transport>>

\* Lines 136-155: one iteration of the delete pass.
DeleteStep ==
    /\ pc = "pass2"
    /\ LET to_list_item == to_user_list[j]
           m == to_list_item.mediaId
           skipped == \/ m \in mapped_media_ids
                      \/ IsProtected(to_list_item, ignore_to_user_statuses)
           hook_called == entry_factory # None /\ ~skipped
           pos == AfterPass2(to_user_list, j)
       IN \E new_to_list_item \in HookChoices(hook_called, None, to_list_item) :
          \E typed \in Answers, answer \in ServiceAnswers :
            LET hev == IF hook_called
                       THEN <<HookEvent(m, None, to_list_item, new_to_list_item)>>
                       ELSE <<>>
                op == DeleteOp(skipped, hook_called /\ new_to_list_item # None)
                x == IF op = "None" THEN Continue
                     ELSE Execute(op, m, to_list_item,
                                  IF op = "Update" THEN new_to_list_item ELSE None,
                                  typed, show_title, answer)
                out == [x EXCEPT !.events = hev \o @]
            IN /\ Prompted(out) \/ typed = <<>>
               /\ Answered(out, answer)
               /\ Apply(out, pos)
    /\ UNCHANGED <<from_labels, to_labels, from_remote, status_map,
                   ignore_to_user_statuses, delete_unmapped, entry_factory,
                   to_user_oauth_token, from_user_list, mapped_media_ids, to_user_list,
                   to_user_list_by_media_id, show_title, run, environment, caching, syncer, transport>>

\* ------------------------------------------------------------ inputs
EntryStatuses == {"CURRENT", "PLANNING"}

\* A status map that moves CURRENT to PLANNING, keeps COMPLETED and leaves the
\* other statuses unmapped, spelled in mixed case.
Remap == [current |-> "planning", COMPLETED |-> "COMPLETED"]

StatusMapArgs == {None, Remap}
IgnoreArgs == {None, Some({"planning"})}
VerbosityArgs == [verbose : BOOLEAN, require_approval : BOOLEAN]

\* A source entry: its own entry id, custom list "A" enabled.
FromEntry(m, labels, status, score) ==
    Entry(10 + m, m, status, score, 0, FALSE, [l \in labels |-> l = "A"])

\* Lists that differ in status only: every media, on each side, absent or with
\* one of the statuses.
StatusLists(labels) ==
    [from : [MediaIds -> {None} \cup {[st |-> s] : s \in EntryStatuses}],
     to   : [MediaIds -> {None} \cup {[st |-> s] : s \in EntryStatuses}]]

FromOfStatus(pick, labels) ==
    [m \in MediaIds |->
        IF pick[m] = None THEN None ELSE FromEntry(m, labels, pick[m].st, 0)]

ToOfStatus(pick) ==
    [m \in MediaIds |->
        IF pick[m] = None THEN None
        ELSE Entry(20 + m, m, pick[m].st, 0, 0, FALSE, [l \in {"A"} |-> TRUE])]

InitWith(fl, tl, fr, tr, sm, ig, du, ef, v) ==
    /\ pc = "start"
    /\ from_labels = fl
    /\ to_labels = tl
    /\ from_remote = fr
    /\ to_remote = tr
    /\ next_id = 30
    /\ status_map = sm
    /\ ignore_to_user_statuses = ig
    /\ delete_unmapped = du
    /\ entry_factory = ef
    /\ verbosity = v
    /\ to_user_oauth_token = None
    /\ from_user_list = <<>>
    /\ mapped_media_ids = {}
    /\ to_user_list = <<>>
    /\ to_user_list_by_media_id = <<>>
    /\ i = 1
    /\ j = 1
    /\ show_title = None
    /\ run = 1
    /\ log = <<>>

\* Both lists hold any of the media and differ in status.
InitStatus(ef_args, v_args) ==
    \E sm \in StatusMapArgs, ig \in IgnoreArgs, du \in BOOLEAN,
       ef \in ef_args, v \in v_args, pick \in StatusLists({"A"}) :
        InitWith({"A"}, {"A"}, FromOfStatus(pick.from, {"A"}), ToOfStatus(pick.to),
                 sm, ig, du, ef, v)

\* One media: the source holds it, the destination holds it with any field
\* values or not at all; the two users' custom list names may differ.
InitFields(ef_args, v_args) ==
    \E sm \in StatusMapArgs, ig \in IgnoreArgs, du \in BOOLEAN,
       ef \in ef_args, v \in v_args, m \in MediaIds,
       fl \in {{"A"}, {"A", "B"}},
       fs \in EntryStatuses, fscore \in 0..MaxScore,
       d \in {None} \cup [status : EntryStatuses, progress : 0..MaxProgress,
                          hidden : BOOLEAN, a : BOOLEAN] :
        InitWith(fl, {"A"},
                 [k \in MediaIds |-> IF k = m THEN FromEntry(m, fl, fs, fscore) ELSE None],
                 [k \in MediaIds |->
                     IF k = m /\ d # None
                     THEN Entry(20 + m, m, d.status, 0, d.progress, d.hidden,
                                [l \in {"A"} |-> d.a])
                     ELSE None],
                 sm, ig, du, ef, v)

\* No module decorated with cache() is loaded.
CacheIdle ==
    /\ cpc = "idle"
    /\ cache_file = [kind |-> "missing"]
    /\ cache = None
    /\ max_age = 0
    /\ now = 0
    /\ calls = <<>>

\* amq_list_syncer is not running.
SyncerIdle ==
    /\ apc = "idle"
    /\ force = FALSE
    /\ stdin = <<>>
    /\ confirmations = <<>>

\* No depaginated_request call of its own is under way, nothing was counted.
TransportIdle ==
    /\ total_queries = 0
    /\ tpc = "idle"
    /\ response = None
    /\ page_num = 0
    /\ out_list = <<>>
    /\ max_count = None
    /\ result = None
    /\ net = <<>>

\* Both users have a token and every media at most one entry per list.
SoundEnvironment ==
    /\ from_user = "from_user"
    /\ oauth_users = {"from_user", "to_user"}
    /\ from_second = {}
    /\ to_second = {}
    /\ faulty = FALSE

Sound ==
    /\ SoundEnvironment
    /\ TransportIdle
    /\ CacheIdle
    /\ SyncerIdle

Init ==
    /\ Sound
    /\ \/ InitStatus({None, Factory}, VerbosityArgs)
       \/ InitFields({None, Factory}, VerbosityArgs)

Next == Start \/ MirrorStep \/ DeleteStep

Spec == Init /\ [][Next]_vars

\* ------------------------------------------------------------ request_utils
\* Durations are in tenths of a second: time.sleep(0.1) is Sleep(1).
Tenths(seconds) == 10 * seconds

\* What requests.post sends (line 18, line 39): the query variables with page
\* and perPage, and the Authorization header.
PostEvent(page, token) ==
    [kind |-> "post",
     variables |-> [userName |-> "to_user", perPage |-> MAX_PAGE_SIZE, page |-> page],
     token |-> token]

\* A response: its status code, whether response.ok, the Retry-After header
\* (None if absent) and whether the body parses, and its data if it does.
ResponseEvent(r) == [kind |-> "response"] @@ r

SleepEvent(tenths) == [kind |-> "sleep", tenths |-> tenths]

\* safe_post_request returned data, or raised.
ReturnEvent(data) == [kind |-> "return", data |-> data]
RaiseEvent(error) == [kind |-> "raise", error |-> error]

\* n single-key layers around x.
RECURSIVE Wrap(_, _)
Wrap(n, x) == IF n = 0 THEN x ELSE [Page |-> Wrap(n - 1, x)]

\* The item lists a page may hold: <<>>, <<1>>, <<2, 1>>, ...
ItemLists == {[k \in 1..n |-> n + 1 - k] : n \in 0..MaxItems}

PagedObject(hasNextPage, items) ==
    [pageInfo |-> [hasNextPage |-> hasNextPage], mediaList |-> items]

\* The payloads the service may answer with: a paged object under any number
\* of layers, and under the same layers an empty object, an object with two
\* fields neither of which is pageInfo, a paged object with two sibling
\* fields and one with none.
Payloads ==
    {Wrap(n, x) : n \in 0..MaxLayers,
                  x \in {PagedObject(b, l) : b \in BOOLEAN, l \in ItemLists}
                        \cup {<<>>,
                              [Page |-> PagedObject(FALSE, <<1>>),
                               Viewer |-> PagedObject(FALSE, <<1>>)],
                              PagedObject(FALSE, <<1>>) @@ [extra |-> <<2>>],
                              [pageInfo |-> [hasNextPage |-> FALSE]]}}

Responses ==
    {[status_code |-> 429, ok |-> FALSE, retry_after |-> ra, parses |-> TRUE, data |-> None] :
        ra \in {None} \cup {Some(n) : n \in 0..MaxRetryAfter}}
    \cup {[status_code |-> 500, ok |-> FALSE, retry_after |-> None, parses |-> TRUE, data |-> None],
          [status_code |-> 200, ok |-> TRUE, retry_after |-> None, parses |-> FALSE, data |-> None]}
    \cup {[status_code |-> 200, ok |-> TRUE, retry_after |-> None, parses |-> TRUE, data |-> d] :
            d \in Payloads}

\* Mutant: every response that is not ok is taken for a rate limit.
RateLimitHit_AnyError(r) == ~r.ok

\* Mutant: every response is taken for a rate limit.
RateLimitHit_Always(r) == TRUE

\* Line 21: the rate limit was hit.
RateLimitHit(r) == r.status_code = 429

\* Mutant: every response is counted.
TotalQueriesAfter_Every(total, r) == total + 1

\* Lines 21-41: total_queries after a response.
TotalQueriesAfter(total, r) == IF RateLimitHit(r) THEN total ELSE total + 1

\* Lines 22-38: the sleeps between a 429 response and the resend.
Backoff(r) ==
    IF r.retry_after # None
    THEN LET retry_after == r.retry_after.some + 1
         IN <<SleepEvent(Tenths(retry_after)), SleepEvent(Tenths(retry_after))>>
    ELSE LET retry_after == 61
         IN <<SleepEvent(1), SleepEvent(Tenths(retry_after))>>

\* Mutant: pageInfo is looked for at the top of the data only.
Unwrap_NoLayers(response_data) ==
    [ok |-> "pageInfo" \in DOMAIN response_data /\ Cardinality(DOMAIN response_data) = 2,
     paged |-> response_data]

\* Mutant: a wrapper with several fields is unwrapped by its first field and
\* a paged object may have any number of fields.
RECURSIVE Unwrap_Lenient(_)
Unwrap_Lenient(response_data) ==
    IF "pageInfo" \in DOMAIN response_data
    THEN [ok |-> Cardinality(DOMAIN response_data) >= 2, paged |-> response_data]
    ELSE IF DOMAIN response_data = {} THEN [ok |-> FALSE, paged |-> response_data]
    ELSE Unwrap_Lenient(response_data[CHOOSE k \in DOMAIN response_data : TRUE])

\* Lines 85-92: unwrap until pageInfo shows; ok is FALSE where an assert fails.
RECURSIVE Unwrap(_)
Unwrap(response_data) ==
    IF "pageInfo" \in DOMAIN response_data
    THEN [ok |-> Cardinality(DOMAIN response_data) = 2, paged |-> response_data]
    ELSE IF DOMAIN response_data = {} THEN [ok |-> FALSE, paged |-> response_data]
    ELSE IF Cardinality(DOMAIN response_data) # 1
    THEN [ok |-> FALSE, paged |-> response_data]
    ELSE Unwrap(response_data[CHOOSE k \in DOMAIN response_data : TRUE])

\* Line 93: the value of the field that is not pageInfo.
ItemsOf(paged) == paged[CHOOSE k \in DOMAIN paged : k # "pageInfo"]

\* Mutant: the count has to exceed max_count.
ReachedMaxCount_Exceeded(list, mc) == mc # None /\ Len(list) > mc.some

\* Line 95.
ReachedMaxCount(list, mc) == mc # None /\ Len(list) >= mc.some

\* Line 96: out_list[:max_count].
Truncate(list, mc) == SubSeq(list, 1, IF mc.some < Len(list) THEN mc.some ELSE Len(list))

\* The post events of net.
Posts == {k \in DOMAIN net : net[k].kind = "post"}

\* The last request sent.
LastPost == net[CHOOSE k \in Posts : \A n \in Posts : n <= k]

\* Mutant: the request is resent without the Authorization header.
Resend_Anonymous(post) == [post EXCEPT !.token = None]

\* Line 39: the request is sent again, with post_json and oauth_token as they
\* were at line 18.
Resend(post) ==
    [kind |-> "post", variables |-> post.variables, token |-> post.token]

\* Lines 69-80 and 18: depaginated_request is called and sends the request
\* for page 1.  Its oauth_token argument is the caller's to_user_oauth_token.
DepaginatedRequest ==
    /\ tpc = "idle"
    /\ \E mc \in {None} \cup {Some(n) : n \in 0..(2 * MaxItems)} :
        max_count' = mc
    /\ page_num' = 1
    /\ out_list' = <<>>
    /\ net' = <<PostEvent(1, to_user_oauth_token)>>
    /\ tpc' = "waiting"
    /\ UNCHANGED <<pc, from_labels, to_labels, from_remote, to_remote, next_id,
                   status_map, ignore_to_user_statuses, delete_unmapped, entry_factory,
                   verbosity, to_user_oauth_token, from_user_list, mapped_media_ids,
                   to_user_list, to_user_list_by_media_id, i, j, show_title, run, log,
                   environment, caching, syncer, total_queries, response, result>>

\* Lines 21-39: a 429 response arrives; safe_post_request sleeps and resends,
\* as often as that happens.  The log keeps the first MaxPosts requests: of a
\* later resend it keeps neither the 429 response, nor the sleeps, nor the
\* request.
RateLimited ==
    /\ tpc = "waiting"
    /\ \E r \in Responses :
        /\ RateLimitHit(r)
        /\ response' = r
        /\ total_queries' = TotalQueriesAfter(total_queries, r)
        /\ net' = IF Cardinality(Posts) < MaxPosts
                  THEN net \o <<ResponseEvent(r)>> \o Backoff(r) \o <<Resend(LastPost)>>
                  ELSE net
    /\ UNCHANGED <<pc, from_labels, to_labels, from_remote, to_remote, next_id,
                   status_map, ignore_to_user_statuses, delete_unmapped, entry_factory,
                   verbosity, to_user_oauth_token, from_user_list, mapped_media_ids,
                   to_user_list, to_user_list_by_media_id, i, j, show_title, run, log,
                   environment, caching, syncer, tpc, page_num, out_list, max_count, result>>

\* Lines 41-56 and 85-101: another response arrives; safe_post_request counts
\* it and raises or returns its data; depaginated_request unwraps the data
\* and raises, returns, or sends the request for the next page.
Responded ==
    /\ tpc = "waiting"
    /\ \E r \in Responses :
        /\ ~RateLimitHit(r)
        /\ response' = r
        /\ total_queries' = TotalQueriesAfter(total_queries, r)
        /\ IF ~r.parses
           THEN /\ net' = net \o <<ResponseEvent(r), RaiseEvent("JSONDecodeError")>>
                /\ tpc' = "raised"
                /\ UNCHANGED <<page_num, out_list, result>>
           ELSE IF ~r.ok
           THEN /\ net' = net \o <<ResponseEvent(r), RaiseEvent("HTTPError")>>
                /\ tpc' = "raised"
                /\ UNCHANGED <<page_num, out_list, result>>
           ELSE LET u == Unwrap(r.data)
                    list == out_list \o ItemsOf(u.paged)
                    returned == <<ResponseEvent(r), ReturnEvent(r.data)>>
                IN IF ~u.ok
                   THEN /\ net' = net \o returned \o <<RaiseEvent("AssertionError")>>
                        /\ tpc' = "raised"
                        /\ UNCHANGED <<page_num, out_list, result>>
                   ELSE IF ReachedMaxCount(list, max_count)
                   THEN /\ net' = net \o returned
                        /\ tpc' = "returned"
                        /\ result' = [value |-> Truncate(list, max_count)]
                        /\ out_list' = list
                        /\ UNCHANGED page_num
                   ELSE IF ~u.paged.pageInfo.hasNextPage
                   THEN /\ net' = net \o returned
                        /\ tpc' = "returned"
                        /\ result' = [value |-> list]
                        /\ out_list' = list
                        /\ UNCHANGED page_num
                   ELSE /\ Cardinality(Posts) < MaxPosts
                        /\ net' = net \o returned
                                      \o <<PostEvent(page_num + 1, to_user_oauth_token)>>
                        /\ page_num' = page_num + 1
                        /\ out_list' = list
                        /\ UNCHANGED <<tpc, result>>
    /\ UNCHANGED <<pc, from_labels, to_labels, from_remote, to_remote, next_id,
                   status_map, ignore_to_user_statuses, delete_unmapped, entry_factory,
                   verbosity, to_user_oauth_token, from_user_list, mapped_media_ids,
                   to_user_list, to_user_list_by_media_id, i, j, show_title, run, log,
                   environment, caching, syncer, max_count>>

\* mirror_list is not running; the token is the caller's to give.
MirrorIdle ==
    /\ pc = "idle"
    /\ from_labels = {}
    /\ to_labels = {}
    /\ from_remote = [m \in MediaIds |-> None]
    /\ to_remote = [m \in MediaIds |-> None]
    /\ next_id = 30
    /\ status_map = None
    /\ ignore_to_user_statuses = None
    /\ delete_unmapped = FALSE
    /\ entry_factory = None
    /\ verbosity = None
    /\ from_user_list = <<>>
    /\ mapped_media_ids = {}
    /\ to_user_list = <<>>
    /\ to_user_list_by_media_id = <<>>
    /\ i = 1
    /\ j = 1
    /\ show_title = None
    /\ run = 1
    /\ log = <<>>

\* depaginated_request is called without a token.
InitRequests == Sound /\ MirrorIdle /\ to_user_oauth_token = None

NextRequests == DepaginatedRequest \/ RateLimited \/ Responded

SpecRequests == InitRequests /\ [][NextRequests]_vars

\* depaginated_request is called with or without a token, and the service
\* answers every request in the end with a response that is not 429.
InitRetry ==
    /\ Sound
    /\ MirrorIdle
    /\ to_user_oauth_token \in {None, GetOauthToken("to_user")}

SpecRetry == InitRetry /\ [][NextRequests]_vars /\ WF_vars(Responded)

\* ------------------------------------------------------------ any environment
\* The source user is robert or somebody else, any of the users may be without
\* a token, and media 1 may have two entries in either list.  No hook, no
\* prompts.
InitAny ==
    /\ from_user \in {"from_user", "robert"}
    /\ oauth_users \in SUBSET {"robert", "to_user"}
    /\ from_second \in {{}, {1}}
    /\ to_second \in {{}, {1}}
    /\ faulty = FALSE
    /\ TransportIdle
    /\ CacheIdle
    /\ SyncerIdle
    /\ InitStatus({None}, {[verbose |-> FALSE, require_approval |-> FALSE]})

SpecAny == InitAny /\ [][Next]_vars

\* ------------------------------------------------------------ two runs
\* mirror_list is called again once the first call has returned, with the
\* arguments of the first call (sanitising an already sanitised argument gives
\* the same value) against the lists as the first call left them.
Rerun ==
    /\ pc = "done"
    /\ run = 1
    /\ run' = 2
    /\ pc' = "start"
    /\ ignore_to_user_statuses' = Some(ignore_to_user_statuses)
    /\ to_user_oauth_token' = None
    /\ from_user_list' = <<>>
    /\ mapped_media_ids' = {}
    /\ to_user_list' = <<>>
    /\ to_user_list_by_media_id' = <<>>
    /\ i' = 1
    /\ j' = 1
    /\ show_title' = None
    /\ UNCHANGED <<from_labels, to_labels, from_remote, to_remote, next_id,
                   status_map, delete_unmapped, entry_factory, verbosity, log,
                   environment, caching, syncer, total_queries, transport>>

\* No hook, and a verbosity that does not require approval.
InitTwice ==
    /\ Sound
    /\ \/ InitStatus({None}, [verbose : BOOLEAN, require_approval : {FALSE}])
       \/ InitFields({None}, [verbose : BOOLEAN, require_approval : {FALSE}])

NextTwice == Start \/ MirrorStep \/ DeleteStep \/ Rerun

SpecTwice == InitTwice /\ [][NextTwice]_vars


\* ------------------------------------------------------------ reading the log
\* The run got past its first question and has read both lists.
Fetched == to_user_oauth_token # None

\* The destination entry this run read for media m, None if there is none.
ReadTo(m) ==
    IF \E e \in Range(to_user_list) : e.mediaId = m
    THEN CHOOSE e \in Range(to_user_list) : e.mediaId = m
    ELSE None

\* The source entry this run fetched for media m, None if there is none.
ReadFrom(m) ==
    IF \E e \in Range(from_user_list) : e.mediaId = m
    THEN CHOOSE e \in Range(from_user_list) : e.mediaId = m
    ELSE None

\* The destination entry read for m is in an ignored status.
ProtectedRead(m) ==
    ReadTo(m) # None /\ ReadTo(m).status \in ignore_to_user_statuses

\* The positions of the log's events of one kind about media m.
EventsOn(kind, m) ==
    {k \in DOMAIN log : log[k].kind = kind /\ log[k].mediaId = m}

\* ------------------------------------------------------------ C1
\* C1: a destination entry read in an ignored status gets no Create, Update or
\* Delete request in either pass, is never handed to the hook or to
\* confirm_entry_diff, and stays on the service as it was read.
C1_Protection ==
    Fetched =>
        \A m \in MediaIds :
            ProtectedRead(m) =>
                /\ EventsOn("write", m) = {}
                /\ EventsOn("hook", m) = {}
                /\ EventsOn("confirm", m) = {}
                /\ to_remote[m] = ReadTo(m)

\* A finished run with deletion on and a hook, in which one protected entry
\* differs from its mapped source entry and another has no source entry.
C1_Witness ==
    /\ pc = "done"
    /\ delete_unmapped
    /\ entry_factory # None
    /\ \E m \in MediaIds :
        /\ ProtectedRead(m)
        /\ ReadFrom(m) # None
        /\ status_map[ReadFrom(m).status] # ReadTo(m).status
    /\ \E m \in MediaIds : ProtectedRead(m) /\ ReadFrom(m) = None


\* ------------------------------------------------------------ C3
\* C3: with delete_unmapped false, a destination entry whose media is not among
\* the fetched source entries gets no request, is never handed to the hook or
\* to confirm_entry_diff, and stays as read; with delete_unmapped true and no
\* hook, a finished run has sent a Delete for every such unprotected entry the
\* operator did not skip.
C3_DeletionGating ==
    Fetched =>
        \A m \in MediaIds :
            (ReadTo(m) # None /\ m \notin mapped_media_ids) =>
                IF ~delete_unmapped
                THEN /\ EventsOn("write", m) = {}
                     /\ EventsOn("hook", m) = {}
                     /\ EventsOn("confirm", m) = {}
                     /\ to_remote[m] = ReadTo(m)
                     /\ pc # "pass2"
                ELSE (pc = "done" /\ entry_factory = None /\ ~ProtectedRead(m)) =>
                        \/ \E k \in EventsOn("write", m) :
                              /\ log[k].op = "Delete"
                              /\ log[k].vars = [id |-> ReadTo(m).id]
                        \/ \E k \in EventsOn("confirm", m) : log[k].ret = "false"

\* A finished run with deletion off and a hook that left an unprotected,
\* unmapped destination entry alone.
C3_Witness ==
    /\ pc = "done"
    /\ ~delete_unmapped
    /\ entry_factory # None
    /\ log # <<>>
    /\ \E m \in MediaIds :
        ReadTo(m) # None /\ ~ProtectedRead(m) /\ m \notin mapped_media_ids

Wire(e) ==
    [mediaId |-> e.mediaId, status |-> e.status, score |-> e.score,
     progress |-> e.progress, hiddenFromStatusLists |-> e.hiddenFromStatusLists,
     customLists |-> {l \in DOMAIN e.customLists : e.customLists[l]}]

\* Approval was never required in this run.
ApprovalOff ==
    /\ verbosity # None
    /\ ~verbosity.require_approval
    /\ \A k \in DOMAIN log : log[k].kind = "confirm" => ~log[k].require_approval

\* C5: with no hook and approval off, every source item the first pass has
\* handled, with S its remapped entry and D the destination entry read for its
\* media: D absent, exactly one request for the media, a Create of S without
\* an id; D protected, none; S with D's id equal to D, none; otherwise exactly
\* one request, an Update of S with D's id.
C5_DecisionTable ==
    (Fetched /\ entry_factory = None /\ ApprovalOff) =>
        \A n \in DOMAIN from_user_list :
            n < i =>
                LET S == [from_user_list[n] EXCEPT !.status = status_map[@]]
                    m == S.mediaId
                    D == ReadTo(m)
                    W == EventsOn("write", m)
                IN IF D = None
                   THEN \E k \in W : /\ W = {k}
                                     /\ log[k].op = "Create"
                                     /\ log[k].vars = Wire(S)
                   ELSE IF ProtectedRead(m) THEN W = {}
                   ELSE IF [S EXCEPT !.id = D.id] = D THEN W = {}
                   ELSE \E k \in W : /\ W = {k}
                                     /\ log[k].op = "Update"
                                     /\ log[k].vars = [id |-> D.id] @@ Wire(S)

\* A finished run without hook or approval that created one entry and found
\* another equal to its source.
C5_Witness ==
    /\ pc = "done"
    /\ entry_factory = None
    /\ ApprovalOff
    /\ \E m \in mapped_media_ids : ReadTo(m) = None /\ EventsOn("write", m) # {}
    /\ \E m \in mapped_media_ids :
        /\ ReadTo(m) # None
        /\ ~ProtectedRead(m)
        /\ EventsOn("write", m) = {}


\* ------------------------------------------------------------ C6
FieldNames == {"id", "mediaId", "status", "score", "progress",
               "hiddenFromStatusLists", "customLists"}

\* The fields in which two entries differ.
Changed(old, new) == {f \in FieldNames : old[f] # new[f]}

\* The classification the specification gives: a Create, a Delete, or an
\* Update that changes the status or at least three fields.
IsMajor(op, old, new) ==
    \/ op \in {"Create", "Delete"}
    \/ "status" \in Changed(old, new)
    \/ Cardinality(Changed(old, new)) >= 3

\* The request variables the operation a confirmation was asked about sends.
RequestOf(c) ==
    IF c.op = "Create" THEN Wire(c.new)
    ELSE IF c.op = "Update" THEN [id |-> c.new.id] @@ Wire(c.new)
    ELSE [id |-> c.old.id]

\* C6: every request follows at once on a confirmation of that very operation
\* on that media that returned True; and where approval was required and the
\* operation is major, that confirmation prompted and the answer began with y
\* (approve) or f (escalate).
C6_ConfirmationGate ==
    \A k \in DOMAIN log :
        log[k].kind = "write" =>
            /\ k > 1
            /\ LET c == log[k - 1]
               IN /\ c.kind = "confirm"
                  /\ c.op = log[k].op
                  /\ c.mediaId = log[k].mediaId
                  /\ c.ret = "true"
                  /\ log[k].vars = RequestOf(c)
                  /\ (c.require_approval /\ IsMajor(c.op, c.old, c.new)) =>
                        /\ c.prompted
                        /\ c.answer[1] \in {"y", "f"}

\* A finished run in which a Delete and a Create were each sent after the
\* operator approved them with y while approval was required.
C6_Witness ==
    /\ pc = "done"
    /\ verbosity.require_approval
    /\ \E k \in DOMAIN log :
        /\ log[k].kind = "write" /\ log[k].op = "Delete"
        /\ log[k - 1].prompted /\ log[k - 1].answer = <<"y">>
    /\ \E k \in DOMAIN log :
        /\ log[k].kind = "write" /\ log[k].op = "Create"
        /\ log[k - 1].prompted /\ log[k - 1].answer = <<"y">>

C8_Skip ==
    \A k \in DOMAIN log :
        (/\ log[k].kind = "confirm" /\ log[k].op # "Start"
         /\ log[k].prompted /\ StartsWith(log[k].answer, "s")) =>
            /\ log[k].ret = "false"
            /\ log[k].require_approval /\ log[k].after
            /\ EventsOn("write", log[k].mediaId) = {}
            /\ to_remote[log[k].mediaId] = ReadTo(log[k].mediaId)
            /\ k = Len(log) => (pc # "raised" /\ verbosity.require_approval)
            /\ k < Len(log) => log[k + 1].mediaId # log[k].mediaId

\* A finished run in which the operator skipped one operation and approved a
\* later one.
C8_Witness ==
    /\ pc = "done"
    /\ \E k \in DOMAIN log :
        /\ log[k].kind = "confirm" /\ log[k].op # "Start"
        /\ log[k].prompted /\ log[k].answer = <<"s">>
        /\ \E n \in DOMAIN log : n > k /\ log[n].kind = "write"

\* ------------------------------------------------------------ C9
\* The service holds, for every media, what the run read changed by the last
\* request the run sent for it.
WritesInPlace ==
    \A m \in MediaIds :
        LET W == EventsOn("write", m)
        IN IF W = {} THEN to_remote[m] = ReadTo(m)
           ELSE LET w == log[CHOOSE k \in W : \A n \in W : n <= k]
                IN IF w.op = "Delete" THEN to_remote[m] = None
                   ELSE /\ to_remote[m] # None
                        /\ Wire(to_remote[m]) = [f \in DOMAIN w.vars \ {"id"} |-> w.vars[f]]

\* C9: a prompt answered with anything that does not begin with y, f or s
\* (the empty answer too) raises: it is the last thing the run does, no
\* request and no prompt follow, and the requests sent before it stay applied.
C9_Abort ==
    \A k \in DOMAIN log :
        (/\ log[k].kind = "confirm" /\ log[k].prompted
         /\ ~StartsWith(log[k].answer, "y")
         /\ ~StartsWith(log[k].answer, "f")
         /\ ~StartsWith(log[k].answer, "s")) =>
            /\ log[k].ret = "raise"
            /\ k = Len(log)
            /\ pc = "raised"
            /\ Fetched => WritesInPlace

\* The operator approved one operation, which was sent, and then gave an empty
\* answer to the next prompt.
C9_Witness ==
    /\ pc = "raised"
    /\ log # <<>>
    /\ log[Len(log)].kind = "confirm"
    /\ log[Len(log)].prompted
    /\ log[Len(log)].answer = <<>>
    /\ \E k \in DOMAIN log : log[k].kind = "write"

\* ------------------------------------------------------------ C10
\* C10: after the answer force to a prompt about an entry, that operation is
\* sent, require_approval is false and stays false, no prompt is shown again,
\* and every later operation that differs is sent.
C10_Escalation ==
    \A k \in DOMAIN log :
        (/\ log[k].kind = "confirm" /\ log[k].op # "Start"
         /\ log[k].prompted /\ StartsWith(log[k].answer, "f")) =>
            /\ log[k].ret = "true"
            /\ ~log[k].after
            /\ ~verbosity.require_approval
            /\ k < Len(log)
            /\ log[k + 1].kind = "write"
            /\ log[k + 1].vars = RequestOf(log[k])
            /\ \A n \in DOMAIN log :
                (n > k /\ log[n].kind = "confirm") =>
                    /\ ~log[n].prompted
                    /\ ~log[n].require_approval
                    /\ ~log[n].after
                    /\ log[n].old # log[n].new =>
                          /\ log[n].ret = "true"
                          /\ n < Len(log)
                          /\ log[n + 1].kind = "write"
                          /\ log[n + 1].vars = RequestOf(log[n])

\* The same in the runs where the verbose prints have a title to print: the
\* run is not verbose, or it fetched at least one source entry.
C10_EscalationTitled ==
    (~verbosity.verbose \/ from_user_list # <<>>) => C10_Escalation

\* The operator answered force to a prompt and a later major operation went
\* out without a prompt.
C10_Seen ==
    \E k \in DOMAIN log :
        /\ log[k].kind = "confirm" /\ log[k].op # "Start"
        /\ log[k].prompted /\ StartsWith(log[k].answer, "f")
        /\ \E n \in DOMAIN log :
            /\ n > k + 1
            /\ log[n].kind = "write"
            /\ log[n].op \in {"Create", "Delete"}

\* ------------------------------------------------------------ C2
\* C2: with no hook and approval not required, a second run with the inputs
\* of a first run that completed sends no Create, Update or Delete.
C2_Idempotence ==
    \A k \in DOMAIN log : log[k].kind = "write" => log[k].run = 1

\* The same where both users have the same custom list names.
C2_IdempotenceSameLabels ==
    from_labels = to_labels => C2_Idempotence

\* ------------------------------------------------------------ C11
\* The pages of username's list requested in run r, in the order requested.
ReadsOf(username, r) ==
    {k \in DOMAIN log : log[k].kind = "read" /\ log[k].user = username /\ log[k].run = r}

\* The list of username was read to its end in run r before position n of the
\* log: pages 1, 2, ... one after the other, the last with no next page.
ReadThrough(username, r, n) ==
    LET R == ReadsOf(username, r)
    IN /\ R # {}
       /\ \A k \in R : k < n
       /\ \A k \in R : log[k].page = Cardinality({h \in R : h <= k})
       /\ \A k \in R : log[k].hasNextPage <=> (\E h \in R : h > k)

\* C11: in one run every page request for the source and for the destination
\* list comes before the first write request, both lists have been read to
\* their last page by then, and no page is requested after a write.
C11_ReadBeforeWrite ==
    \A n \in DOMAIN log :
        log[n].kind = "write" =>
            /\ ReadThrough(from_user, log[n].run, n)
            /\ ReadThrough("to_user", log[n].run, n)
            /\ \A k \in DOMAIN log :
                (log[k].kind = "read" /\ log[k].run = log[n].run) => k < n

\* A write was sent after the destination list was read over two pages.
C11_Witness ==
    /\ \E n \in DOMAIN log : log[n].kind = "write"
    /\ \E k \in DOMAIN log :
        log[k].kind = "read" /\ log[k].user = "to_user" /\ log[k].page = 2
    /\ \E k \in DOMAIN log :
        log[k].kind = "read" /\ log[k].user = from_user /\ log[k].page = 2

\* ------------------------------------------------------------ C12
\* The list holds two entries with one mediaId.
HasDuplicate(list) ==
    \E a, b \in DOMAIN list : a # b /\ list[a].mediaId = list[b].mediaId

\* C12: a run that fetched a source or a destination list with two entries of
\* one mediaId has raised and has sent no write.
C12_IntegrityCheck ==
    (Fetched /\ (HasDuplicate(from_user_list) \/ HasDuplicate(to_user_list))) =>
        /\ pc = "raised"
        /\ Writes(log) = {}

\* The same for the destination list alone, the one line 75 checks.
C12_DestinationChecked ==
    (Fetched /\ HasDuplicate(to_user_list)) =>
        /\ pc = "raised"
        /\ Writes(log) = {}

\* ------------------------------------------------------------ C13
\* C13: a run sends at most one write per mediaId, both passes taken together.
C13_AtMostOneWrite ==
    \A m \in MediaIds : Cardinality(EventsOn("write", m)) <= 1

\* The same for the runs whose fetched source list has no mediaId twice.
C13_UniqueSource ==
    ~HasDuplicate(from_user_list) => C13_AtMostOneWrite

\* ------------------------------------------------------------ C14
\* C14: every write carries the token get_oauth_token returned for the
\* destination user; where there is none the run has raised without a page
\* request or a write; a page request carries the asked user's token or none,
\* and the source user's missing token does not stop the run.
C14_NoUnauthenticatedWrite ==
    /\ \A k \in DOMAIN log :
        log[k].kind = "write" =>
            /\ "to_user" \in oauth_users
            /\ log[k].token = GetOauthToken("to_user")
            /\ log[k].token # None
    /\ "to_user" \notin oauth_users =>
            /\ pc \in {"start", "raised"}
            /\ \A k \in DOMAIN log : log[k].kind \notin {"read", "write"}
    /\ \A k \in DOMAIN log :
        log[k].kind = "read" =>
            log[k].token = IF log[k].user \in oauth_users
                              /\ (log[k].user = "to_user" \/ log[k].user = "robert")
                           THEN GetOauthToken(log[k].user) ELSE None
    /\ (pc = "raised" /\ "to_user" \in oauth_users) => HasDuplicate(to_user_list)

\* robert's list was read without a token, there being none for robert, and
\* the run went on to send a write with the destination user's token.
C14_Witness ==
    /\ from_user = "robert"
    /\ "robert" \notin oauth_users
    /\ \E k \in DOMAIN log :
        log[k].kind = "read" /\ log[k].user = "robert" /\ log[k].token = None
    /\ \E k \in DOMAIN log :
        log[k].kind = "write" /\ log[k].token = GetOauthToken("to_user")

\* ------------------------------------------------------------ C15
\* The responses received so far that are not 429.
Completed == {k \in DOMAIN net : net[k].kind = "response" /\ net[k].status_code # 429}

RECURSIVE Slept(_)
Slept(k) ==
    IF k > Len(net) \/ net[k].kind # "sleep" THEN 0
    ELSE net[k].tenths + Slept(k + 1)

\* C16: between a 429 response with Retry-After R and the resend the call
\* sleeps R + 1 seconds in all; between a 429 response without Retry-After
\* and the resend it sleeps less than a second.
C16_Backoff ==
    \A k \in DOMAIN net :
        (net[k].kind = "response" /\ net[k].status_code = 429) =>
            IF net[k].retry_after # None
            THEN Slept(k + 1) = Tenths(net[k].retry_after.some + 1)
            ELSE Slept(k + 1) < Tenths(1)

\* What the code sleeps: twice R + 1 seconds, and 61.1 seconds.
C16_AsCoded ==
    \A k \in DOMAIN net :
        (net[k].kind = "response" /\ net[k].status_code = 429) =>
            IF net[k].retry_after # None
            THEN Slept(k + 1) = 2 * Tenths(net[k].retry_after.some + 1)
            ELSE Slept(k + 1) = 611

\* ------------------------------------------------------------ C17
\* The last response received before position k of net.
LastResponse(k) ==
    CHOOSE h \in DOMAIN net :
        /\ h < k /\ net[h].kind = "response"
        /\ \A g \in DOMAIN net : (g < k /\ net[g].kind = "response") => g <= h

RECURSIVE LayersTo(_, _)
LayersTo(d, n) ==
    IF n = 0 THEN DOMAIN d = {"pageInfo", "mediaList"}
    ELSE DOMAIN d = {"Page"} /\ LayersTo(d.Page, n - 1)

WellFormed(d) == \E n \in 0..MaxLayers : LayersTo(d, n)

\* The paged object of a well-formed payload.
RECURSIVE Inner(_)
Inner(d) == IF "pageInfo" \in DOMAIN d THEN d ELSE Inner(d.Page)

\* The data safe_post_request returned, in order.
Returns == {k \in DOMAIN net : net[k].kind = "return"}

\* C18: where the first page's payload is a paged object under any number of
\* single-key layers with hasNextPage false, and max_count is not given or
\* not below the page's length, depaginated_request has returned exactly the
\* page's item list after one safe_post_request call, all requests being for
\* page 1.
C18_Unwrap ==
    \A k \in Returns :
        (/\ \A h \in Returns : k <= h
         /\ WellFormed(net[k].data)
         /\ ~Inner(net[k].data).pageInfo.hasNextPage
         /\ (max_count = None \/ max_count.some >= Len(Inner(net[k].data).mediaList))) =>
            /\ tpc = "returned"
            /\ result = [value |-> Inner(net[k].data).mediaList]
            /\ Returns = {k}
            /\ \A p \in Posts : net[p].variables.page = 1

\* The items <<2, 1>> were returned, in this order, from under two layers.
C18_Witness ==
    /\ tpc = "returned"
    /\ max_count = None
    /\ result = [value |-> <<2, 1>>]
    /\ \E k \in Returns : LayersTo(net[k].data, 2)
    /\ Cardinality(Returns) = 1

\* ------------------------------------------------------------ C19
\* The items of the well-formed pages returned up to position k of net, in
\* the order received.
RECURSIVE Accumulated(_)
Accumulated(k) ==
    IF k = 0 THEN <<>>
    ELSE Accumulated(k - 1) \o
         (IF net[k].kind = "return" /\ WellFormed(net[k].data)
          THEN Inner(net[k].data).mediaList ELSE <<>>)

\* The first n items of list, all of them if it has fewer.
FirstItems(list, n) == [h \in 1..(IF n < Len(list) THEN n ELSE Len(list)) |-> list[h]]

\* The page at position k of net ends the call: it has no next page, or the
\* items received reach max_count.
LastPage(k) ==
    \/ ~Inner(net[k].data).pageInfo.hasNextPage
    \/ max_count # None /\ Len(Accumulated(k)) >= max_count.some

\* C19: the first request is for page 1; a request after a return is for the
\* next page, a resend for the same page; every request has perPage 50.  After
\* the first page that has no next page or with which the items received
\* reach max_count nothing more is requested and the call has returned the
\* pages received, in order, cut to max_count items; after any other
\* well-formed page the next request follows.
C19_Pages ==
    /\ \A k \in Posts :
        /\ net[k].variables.perPage = 50
        /\ k = 1 => net[k].variables.page = 1
        /\ k > 1 =>
            LET before == CHOOSE h \in Posts : h < k /\ \A g \in Posts : g < k => g <= h
            IN net[k].variables.page =
                    IF net[k - 1].kind = "return" THEN net[before].variables.page + 1
                    ELSE net[before].variables.page
    /\ \A k \in Returns :
        WellFormed(net[k].data) =>
            IF LastPage(k)
            THEN /\ k = Len(net)
                 /\ tpc = "returned"
                 /\ result = [value |-> IF max_count = None THEN Accumulated(k)
                                        ELSE FirstItems(Accumulated(k), max_count.some)]
                 /\ max_count # None => Len(result.value) <= max_count.some
            ELSE /\ k < Len(net)
                 /\ net[k + 1].kind = "post"
    /\ tpc = "returned" =>
            /\ net[Len(net)].kind = "return"
            /\ WellFormed(net[Len(net)].data)
            /\ Cardinality(Returns) = net[Len(net) - 2].variables.page

\* The call returned on page 2 because max_count was reached, and cut the
\* second page's items off.
C19_Witness ==
    /\ tpc = "returned"
    /\ page_num = 2
    /\ max_count # None
    /\ Inner(net[Len(net)].data).pageInfo.hasNextPage
    /\ Len(result.value) = max_count.some
    /\ Len(result.value) < Len(out_list)
    /\ Len(result.value) > 0

\* ------------------------------------------------------------ C20
\* C20: data that is not a paged object with exactly one sibling field under
\* single-key layers (an empty object, a wrapper with several fields, a paged
\* object with several sibling fields or none) makes depaginated_request
\* raise: nothing is requested afterwards and nothing is returned, the items
\* of earlier pages neither.
C20_ShapeError ==
    \A k \in Returns :
        ~WellFormed(net[k].data) =>
            /\ k + 1 = Len(net)
            /\ net[k + 1] = RaiseEvent("AssertionError")
            /\ tpc = "raised"
            /\ result = None

\* Page 1 brought items, and page 2 came as a wrapper with two fields: the
\* call raised.
C20_Witness ==
    /\ tpc = "raised"
    /\ out_list # <<>>
    /\ page_num = 2
    /\ result = None
    /\ net[Len(net)].kind = "raise"
    /\ net[Len(net) - 1].kind = "return"
    /\ DOMAIN net[Len(net) - 1].data = {"Page", "Viewer"}
    /\ Cardinality(Returns) = 2

\* ------------------------------------------------------------ cache
\* request_utils.cache (src/request_utils.py).  Time is counted in whole units
\* of the clock; a decorated module is imported (the cache file is loaded),
\* its function is called, time passes, the process exits (the dict is dumped)
\* and a later process imports the module again.
MaxTime == 4                  \* the clock stops here
MaxAge == 2                   \* the largest max_age
MaxCalls == 3                 \* calls of the decorated function

\* The argument tuples the decorated function is called with.
Args == {<<1>>, <<2>>}

\* str([args, kwargs]) (line 140), no keyword arguments.
Param(args) ==
    CASE args = <<1>> -> "[(1,), {}]"
      [] args = <<2>> -> "[(2,), {}]"

Params == {Param(args) : args \in Args}

\* What func(*args) returns when it runs at time t.
Func(args, t) == [of |-> args, at |-> t]

\* A cache entry, [result, expiry.isoformat()] (line 142); fromisoformat gives
\* the expiry back as it was.
CacheEntry(value, expiry) == [value |-> value, expiry |-> expiry]

EmptyCache == [p \in Params |-> None]

\* The dicts an earlier process may have left in the cache file: empty, or the
\* result for argument 1 computed at time 0 with any max_age.
CacheDicts ==
    {EmptyCache}
    \cup {[EmptyCache EXCEPT ![Param(<<1>>)] = CacheEntry(Func(<<1>>, 0), e)] :
            e \in 0..MaxAge}

\* The cache file: absent, not JSON, or a dumped dict.
CacheFiles ==
    {[kind |-> "missing"], [kind |-> "corrupt"]}
    \cup {[kind |-> "json", dict |-> d] : d \in CacheDicts}

\* line 141: datetime.fromisoformat(cache[param][1]) < datetime.now()
Expired_AtExpiry(entry, t) == entry.expiry <= t

Expired_Never(entry, t) == FALSE

Expired(entry, t) == entry.expiry < t

\* line 141: param not in cache or the entry is expired
Miss(param, t) == cache[param] = None \/ Expired(cache[param], t)

\* line 142: the expiry stored with a result, datetime.now() + max_age
Expiry_FromCall(called, stored) == called + max_age

Expiry(called, stored) == stored + max_age

\* One call of new_func, as the log keeps it.
CallEvent(param, at, done, before, invoked, returned, after) ==
    [param |-> param, at |-> at, done |-> done, before |-> before,
     invoked |-> invoked, returned |-> returned, after |-> after]

\* cache(file_name, max_age), lines 133-135: the file is loaded if it is
\* there; json.load raises on a file that is not JSON.
LoadCache ==
    /\ cpc \in {"import", "exited"}
    /\ IF cache_file.kind = "corrupt"
       THEN /\ cpc' = "raised"
            /\ cache' = None
       ELSE /\ cpc' = "ready"
            /\ cache' = IF cache_file.kind = "missing" THEN EmptyCache ELSE cache_file.dict
    /\ UNCHANGED <<cache_file, max_age, now, calls>>
    /\ UNCHANGED <<pc, from_labels, to_labels, from_remote, to_remote, next_id,
                   status_map, ignore_to_user_statuses, delete_unmapped,
                   entry_factory, verbosity, to_user_oauth_token, from_user_list,
                   mapped_media_ids, to_user_list, to_user_list_by_media_id,
                   i, j, show_title, run, log, environment, syncer,
                   total_queries, transport>>

\* new_func, lines 139-143; func takes `took' units of time.
CachedCall ==
    /\ cpc = "ready"
    /\ Len(calls) < MaxCalls
    /\ \E args \in Args, took \in 0..1 :
        LET param == Param(args)
            miss == Miss(param, now)
            value == Func(args, now)
            entry == IF miss
                     THEN CacheEntry(value, Expiry(now, now + took))
                     ELSE cache[param]
        IN /\ now + took <= MaxTime
           /\ ~miss => took = 0
           /\ cache' = [cache EXCEPT ![param] = entry]
           /\ now' = now + took
           /\ calls' = Append(calls,
                  CallEvent(param, now, now + took, cache[param],
                            IF miss THEN 1 ELSE 0, entry.value, entry))
    /\ UNCHANGED <<cpc, cache_file, max_age>>
    /\ UNCHANGED <<pc, from_labels, to_labels, from_remote, to_remote, next_id,
                   status_map, ignore_to_user_statuses, delete_unmapped,
                   entry_factory, verbosity, to_user_oauth_token, from_user_list,
                   mapped_media_ids, to_user_list, to_user_list_by_media_id,
                   i, j, show_title, run, log, environment, syncer,
                   total_queries, transport>>

\* Time passes between two calls.
Tick ==
    /\ cpc = "ready"
    /\ now < MaxTime
    /\ now' = now + 1
    /\ UNCHANGED <<cpc, cache_file, cache, max_age, calls>>
    /\ UNCHANGED <<pc, from_labels, to_labels, from_remote, to_remote, next_id,
                   status_map, ignore_to_user_statuses, delete_unmapped,
                   entry_factory, verbosity, to_user_oauth_token, from_user_list,
                   mapped_media_ids, to_user_list, to_user_list_by_media_id,
                   i, j, show_title, run, log, environment, syncer,
                   total_queries, transport>>

\* The process exits: the function registered at line 135 dumps the dict.
DumpCache ==
    /\ cpc = "ready"
    /\ cpc' = "exited"
    /\ cache_file' = [kind |-> "json", dict |-> cache]
    /\ UNCHANGED <<cache, max_age, now, calls>>
    /\ UNCHANGED <<pc, from_labels, to_labels, from_remote, to_remote, next_id,
                   status_map, ignore_to_user_statuses, delete_unmapped,
                   entry_factory, verbosity, to_user_oauth_token, from_user_list,
                   mapped_media_ids, to_user_list, to_user_list_by_media_id,
                   i, j, show_title, run, log, environment, syncer,
                   total_queries, transport>>

\* A decorated module is about to be imported at time 1; the cache file is
\* missing, is not JSON, or holds what an earlier process dumped.
InitCache ==
    /\ SoundEnvironment
    /\ TransportIdle
    /\ SyncerIdle
    /\ MirrorIdle
    /\ to_user_oauth_token = None
    /\ cpc = "import"
    /\ cache_file \in CacheFiles
    /\ cache = None
    /\ max_age \in 1..MaxAge
    /\ now = 1
    /\ calls = <<>>

NextCache == LoadCache \/ CachedCall \/ Tick \/ DumpCache

SpecCache == InitCache /\ [][NextCache]_vars

\* ------------------------------------------------------------ C21
\* C21: a call of the decorated function whose signature has a stored entry
\* with an expiry that has not passed returns the stored value and does not
\* invoke the function; any other call invokes the function once, stores the
\* result with the expiry now + max_age and returns it.  Hence two
\* invocations for one signature are more than max_age apart.
C21_Cache ==
    /\ \A k \in DOMAIN calls :
        LET c == calls[k]
        IN IF c.before # None /\ c.before.expiry >= c.at
           THEN /\ c.invoked = 0
                /\ c.returned = c.before.value
                /\ c.after = c.before
           ELSE /\ c.invoked = 1
                /\ c.returned = Func(CHOOSE a \in Args : Param(a) = c.param, c.at)
                /\ c.after = CacheEntry(c.returned, c.done + max_age)
    /\ \A k, l \in DOMAIN calls :
        (k < l /\ calls[k].param = calls[l].param
               /\ calls[k].invoked = 1 /\ calls[l].invoked = 1)
            => calls[l].at > calls[k].done + max_age

\* A miss at the first call that took time, a hit exactly at the expiry and,
\* one unit later, a second miss for the same signature.
C21_Witness ==
    /\ Len(calls) = 3
    /\ calls[1].param = calls[2].param
    /\ calls[2].param = calls[3].param
    /\ calls[1].invoked = 1
    /\ calls[1].done > calls[1].at
    /\ calls[2].invoked = 0
    /\ calls[2].at = calls[1].after.expiry
    /\ calls[3].invoked = 1
    /\ calls[3].at = calls[2].at + 1

\* ------------------------------------------------------------ C22
\* C22: when the cache file is missing or is not valid JSON, loading it
\* raises no error and the cache starts empty.
C22_CacheFile ==
    (cache_file.kind \in {"missing", "corrupt"} /\ cpc # "import")
        => /\ cpc # "raised"
           /\ calls = <<>> => cache = EmptyCache

\* The half of C22 the code keeps: a missing file gives an empty cache.
C22_Missing ==
    (cache_file.kind = "missing" /\ cpc # "import")
        => /\ cpc # "raised"
           /\ calls = <<>> => cache = EmptyCache

\* ------------------------------------------------------------ a failing service
\* The service may fail any write request.  No hook, no verbose prints.
InitFaulty ==
    /\ from_user = "from_user"
    /\ oauth_users = {"from_user", "to_user"}
    /\ from_second = {}
    /\ to_second = {}
    /\ faulty = TRUE
    /\ TransportIdle
    /\ CacheIdle
    /\ SyncerIdle
    /\ InitStatus({None}, [verbose : {FALSE}, require_approval : BOOLEAN])

SpecFaulty == InitFaulty /\ [][Next]_vars

\* ------------------------------------------------------------ C23
\* The service holds, for every media, what the run read changed by the last
\* request for it that the service answered ok.
AppliedInPlace ==
    \A m \in MediaIds :
        LET W == {k \in EventsOn("write", m) : log[k].answer = "ok"}
        IN IF W = {} THEN to_remote[m] = ReadTo(m)
           ELSE LET w == log[CHOOSE k \in W : \A n \in W : n <= k]
                IN IF w.op = "Delete" THEN to_remote[m] = None
                   ELSE /\ to_remote[m] # None
                        /\ Wire(to_remote[m]) = [f \in DOMAIN w.vars \ {"id"} |-> w.vars[f]]

\* The write requests that failed: the request raised, or it was a Delete and
\* the response said deleted: false.
Failed ==
    {k \in Writes(log) :
        \/ log[k].answer = "error"
        \/ log[k].op = "Delete" /\ log[k].answer = "not_deleted"}

\* C23: a Create, Update or Delete request that fails is the last thing the
\* run does: the run has raised, no request and no prompt follow, and the
\* requests that succeeded before it stay applied.
C23_WriteFailure ==
    \A k \in Failed :
        /\ k = Len(log)
        /\ pc = "raised"
        /\ AppliedInPlace

\* A Delete answered deleted: false in the delete pass after a request of the
\* first pass had succeeded, with a destination entry still to come.
C23_Witness ==
    /\ \E k \in Failed : log[k].op = "Delete" /\ log[k].answer = "not_deleted"
    /\ \E k \in Writes(log) : log[k].answer = "ok"
    /\ pc = "raised"
    /\ j < Len(to_user_list)

\* A Create or Update whose request raised.
C23_SeenError ==
    \E k \in Failed : log[k].op \in {"Create", "Update"} /\ log[k].answer = "error"

\* ------------------------------------------------------------ the default mode
\* mirror_list is called without a verbosity: the argument is None.
InitDefault ==
    /\ Sound
    /\ InitStatus({None, Factory}, {None})

SpecDefault == InitDefault /\ [][Next]_vars

\* ------------------------------------------------------------ C24
\* C24: a run whose verbosity is None never prompts, never raises, and sends
\* the request of every operation it computes whose entry differs.
C24_DefaultMode ==
    verbosity = None =>
        /\ pc # "raised"
        /\ \A k \in DOMAIN log :
            log[k].kind = "confirm" =>
                /\ ~log[k].prompted
                /\ log[k].old # log[k].new =>
                      /\ k < Len(log)
                      /\ log[k + 1].kind = "write"
                      /\ log[k + 1].vars = RequestOf(log[k])

\* What the code does with verbosity None: it never prompts and it never
\* sends a request, and it has raised as soon as there is a source entry to
\* handle or an operation of the delete pass to print.
C24_AsCoded ==
    verbosity = None =>
        /\ Writes(log) = {}
        /\ \A k \in DOMAIN log : log[k].kind = "confirm" => ~log[k].prompted
        /\ (Fetched /\ from_user_list # <<>>) => pc \in {"pass1", "raised"}
        /\ \A k \in DOMAIN log :
            (log[k].kind = "confirm" /\ log[k].ret = "true") => pc = "raised"

\* ------------------------------------------------------------ C25
\* The calls of the hook in the create / update pass that returned None.
Unmade ==
    {k \in DOMAIN log :
        log[k].kind = "hook" /\ log[k].pass = "pass1" /\ log[k].made = None}

\* C25: where the hook returns None in the create / update pass, no Create
\* and no Update is sent for that media; with no destination entry nothing is
\* asked or sent for it; with an (unprotected) destination entry D a Delete
\* of D is put to confirm_entry_diff, which prompts if approval is required,
\* and is sent with D's id if confirmed, whatever delete_unmapped is.
C25_HookNull ==
    \A k \in Unmade :
        LET m == log[k].mediaId
            D == log[k].to
        IN /\ D = ReadTo(m)
           /\ \A w \in EventsOn("write", m) : log[w].op = "Delete"
           /\ D = None =>
                /\ EventsOn("write", m) = {}
                /\ EventsOn("confirm", m) = {}
           /\ D # None =>
                /\ ~ProtectedRead(m)
                /\ k < Len(log)
                /\ log[k + 1].kind = "confirm"
                /\ log[k + 1].op = "Delete"
                /\ log[k + 1].mediaId = m
                /\ log[k + 1].old = D
                /\ log[k + 1].new = None
                /\ log[k + 1].require_approval => log[k + 1].prompted
                /\ IF log[k + 1].ret = "true"
                   THEN /\ k + 1 < Len(log)
                        /\ log[k + 2].kind = "write"
                        /\ log[k + 2].op = "Delete"
                        /\ log[k + 2].mediaId = m
                        /\ log[k + 2].vars = [id |-> D.id]
                        /\ EventsOn("write", m) = {k + 2}
                        /\ to_remote[m] = None
                   ELSE /\ EventsOn("write", m) = {}
                        /\ to_remote[m] = D

\* With delete_unmapped false the hook returned None for a media with no
\* destination entry and for a media with one, whose Delete was confirmed at
\* a prompt and sent.
C25_Witness ==
    /\ ~delete_unmapped
    /\ \E k \in Unmade : log[k].to = None
    /\ \E k \in Unmade :
        /\ log[k].to # None
        /\ k + 1 < Len(log)
        /\ log[k + 1].prompted
        /\ log[k + 2].kind = "write"
        /\ log[k + 2].op = "Delete"

\* ------------------------------------------------------------ C26
\* The confirmations the delete pass asked for about media m.
DeletePassOn(m) == {k \in EventsOn("confirm", m) : log[k].pass = "pass2"}

\* What the hook returned for media m in the delete pass, None if it was not
\* called.
RescuedAs(m) ==
    LET H == {k \in EventsOn("hook", m) : log[k].pass = "pass2"}
    IN IF H = {} THEN None ELSE log[CHOOSE k \in H : TRUE].made

\* C26: with delete_unmapped true the delete pass comes after the whole
\* create / update pass, and handles every unprotected destination entry D
\* whose media is not among the fetched source entries: with no hook, or a
\* hook returning None, a Delete of D is put to confirm_entry_diff and sent
\* with D's id if confirmed; with a hook returning an entry, no Delete is
\* sent, and an Update with that entry is sent if and only if it differs
\* from D.
C26_DeletePass ==
    (Fetched /\ delete_unmapped) =>
        /\ \A k, n \in DOMAIN log :
            (log[k].pass = "pass1" /\ log[n].pass = "pass2") => k < n
        /\ \A m \in MediaIds :
            LET D == ReadTo(m)
                N == RescuedAs(m)
                C == DeletePassOn(m)
                W == EventsOn("write", m)
            IN (D # None /\ ~ProtectedRead(m) /\ m \notin mapped_media_ids) =>
                /\ pc = "done" => C # {}
                /\ \A c \in C :
                    /\ log[c].old = D
                    /\ log[c].new = N
                    /\ IF N = None
                       THEN /\ log[c].op = "Delete"
                            /\ log[c].require_approval => log[c].prompted
                            /\ IF log[c].ret = "true"
                               THEN /\ c < Len(log)
                                    /\ log[c + 1].kind = "write"
                                    /\ log[c + 1].op = "Delete"
                                    /\ log[c + 1].vars = [id |-> D.id]
                                    /\ W = {c + 1}
                               ELSE W = {}
                       ELSE /\ log[c].op = "Update"
                            /\ IF N # D
                               THEN /\ c < Len(log)
                                    /\ log[c + 1].kind = "write"
                                    /\ log[c + 1].op = "Update"
                                    /\ log[c + 1].vars = RequestOf(log[c])
                                    /\ W = {c + 1}
                               ELSE W = {}

\* The same in the runs where the verbose prints have a title to print: the
\* run is not verbose, or it fetched at least one source entry.
C26_DeletePassTitled ==
    (~verbosity.verbose \/ from_user_list # <<>>) => C26_DeletePass

\* A finished delete pass after a first pass that sent a request: one entry
\* was deleted, the other rescued by the hook and updated.
C26_Seen ==
    /\ pc = "done"
    /\ delete_unmapped
    /\ \E k \in Writes(log) : log[k].pass = "pass1"
    /\ \E k \in Writes(log) : log[k].pass = "pass2" /\ log[k].op = "Delete"

\* ------------------------------------------------------------ C27
\* The entry ids of the destination list as this run read it.
ReadIds == {e.id : e \in Range(to_user_list)}

\* C27: no Create request carries an entry id; with no hook every Update
\* request carries the id of the destination entry read for its media, which
\* is not the source entry's id; every Delete request carries nothing but the
\* id of a destination entry read in this run, the one read for its media.
C27_EntryIds ==
    \A k \in Writes(log) :
        LET m == log[k].mediaId
        IN /\ log[k].op = "Create" => "id" \notin DOMAIN log[k].vars
           /\ (log[k].op = "Update" /\ entry_factory = None) =>
                /\ ReadTo(m) # None
                /\ log[k].vars.id = ReadTo(m).id
                /\ log[k].vars.id # ReadFrom(m).id
           /\ log[k].op = "Delete" =>
                /\ DOMAIN log[k].vars = {"id"}
                /\ log[k].vars.id \in ReadIds
                /\ log[k].vars.id = ReadTo(m).id

\* With no hook, one run sent an Update with the destination entry's id and
\* a Delete.
C27_Witness ==
    /\ entry_factory = None
    /\ \E k \in Writes(log) : log[k].op = "Update" /\ log[k].vars.id > 20
    /\ \E k \in Writes(log) : log[k].op = "Delete"

\* One run sent a Create and an Update.
C27_SeenCreate ==
    /\ \E k \in Writes(log) : log[k].op = "Create"
    /\ \E k \in Writes(log) : log[k].op = "Update"

\* ------------------------------------------------------------ C29
\* C29: in a verbose run with delete_unmapped true whose source fetch
\* returned no entry, the delete pass raises only where the operator quits at
\* a prompt, and every operation of the pass that confirm_entry_diff approved
\* is followed by its request.
C29_EmptySource ==
    (/\ Fetched /\ delete_unmapped /\ from_user_list = <<>>
     /\ verbosity # None /\ verbosity.verbose) =>
        /\ pc = "raised" =>
              /\ log[Len(log)].kind = "confirm"
              /\ log[Len(log)].ret = "raise"
        /\ \A k \in DOMAIN log :
            (log[k].kind = "confirm" /\ log[k].pass = "pass2" /\ log[k].ret = "true") =>
                /\ k < Len(log)
                /\ log[k + 1].kind = "write"
                /\ log[k + 1].vars = RequestOf(log[k])

\* What the code does there: no request is ever sent, and the first operation
\* of the delete pass that is approved raises.
C29_AsCoded ==
    (/\ Fetched /\ delete_unmapped /\ from_user_list = <<>>
     /\ verbosity # None /\ verbosity.verbose) =>
        /\ Writes(log) = {}
        /\ show_title = None
        /\ \A k \in DOMAIN log :
            (log[k].kind = "confirm" /\ log[k].pass = "pass2" /\ log[k].ret = "true") =>
                /\ k = Len(log)
                /\ pc = "raised"

\* ------------------------------------------------------------ C28
\* The requests that were sent again after a 429 response.
Resends == {k \in Posts : k > 1 /\ net[k - 1].kind = "sleep"}

\* The request sent before position k.
PostBefore(k) == net[CHOOSE n \in Posts : n < k /\ \A h \in Posts : h < k => h <= n]

\* safe_post_request returns, or raises, only next to a response that is not
\* 429; a resend carries the variables and the token of the request before
\* it; and while the call waits, another 429 response is taken and answered
\* with a resend, however many came before.
RetrySafe ==
    /\ \A k \in DOMAIN net :
        (\/ net[k].kind = "return"
         \/ net[k].kind = "raise" /\ net[k].error \in {"JSONDecodeError", "HTTPError"}) =>
            /\ k > 1
            /\ net[k - 1].kind = "response"
            /\ net[k - 1].status_code # 429
    /\ \A k \in Resends :
        /\ net[k] = PostBefore(k)
        /\ net[k].token = to_user_oauth_token
    /\ tpc = "waiting" => ENABLED RateLimited

\* C28: safe_post_request returns or raises only after a response that is not
\* 429, resends the same body and credential after every 429 response
\* without a cap, and, the service answering in the end with a response that
\* is not 429, the call for each page ends: the call returns or raises, or
\* depaginated_request has gone on to the next page.
C28_RetryLiveness ==
    /\ []RetrySafe
    /\ \A p \in 1..MaxPosts :
        (tpc = "waiting" /\ page_num = p) ~> (tpc # "waiting" \/ page_num > p)

\* A call with a token was answered 429 until the log was full, each resend
\* carrying the token, and then returned.
C28_Witness ==
    /\ tpc = "returned"
    /\ to_user_oauth_token # None
    /\ Cardinality(Resends) = MaxPosts - 1
    /\ \A k \in Resends : net[k].token # None
    /\ page_num = 1

\* Without the assumption about the service the call may wait for ever.
C28_Unfair ==
    (tpc = "waiting" /\ page_num = 1) ~> (tpc # "waiting" \/ page_num > 1)

\* ------------------------------------------------------------ amq_list_syncer
\* The confirmation of amq_list_syncer (src/amq_list_syncer.py) and the
\* request it guards.
MaxAnswers == 3               \* answers the operator types in one run
MaxAsked == 2                 \* guarded requests in one run

Skip == <<"s", "k", "i", "p">>
Force == <<"f", "o", "r", "c", "e">>

\* What the operator may type at one prompt: skip (short, long, capital with
\* a blank), stop, yes, force, nothing, and an answer the prompt does not
\* offer.
AmqAnswers == {<<"s">>, Skip, <<"S", " ">>, <<"n">>, <<"y">>, Force, <<>>, <<"x">>}

\* ask_for_confirm_or_skip() with args.force = frc and input the answers still
\* to come: what it returns ("true", "false", or "raise"), args.force after
\* it, and the answers left.  input() raises EOFError when no answer is left.
RECURSIVE AmqAskForConfirmOrSkip(_, _)
AmqAskForConfirmOrSkip(frc, input) ==
    IF frc THEN [ret |-> "true", force |-> frc, rest |-> input]
    ELSE IF input = <<>> THEN [ret |-> "raise", force |-> frc, rest |-> input]
    ELSE LET confirm == Lower(Strip(Head(input)))
             rest == Tail(input)
         IN IF confirm = Skip \/ confirm = <<"s">>
            THEN [ret |-> "false", force |-> frc, rest |-> rest]
            ELSE IF confirm = <<"n">>
            THEN [ret |-> "raise", force |-> frc, rest |-> rest]
            ELSE IF confirm = Force
            THEN [ret |-> "true", force |-> TRUE, rest |-> rest]
            ELSE IF confirm # <<>> /\ ~StartsWith(confirm, "y")
            THEN \* line 132: the prompt is shown again, what it returns is dropped
                 LET again == AmqAskForConfirmOrSkip(frc, rest)
                 IN IF again.ret = "raise" THEN again
                    ELSE [ret |-> "true", force |-> again.force, rest |-> again.rest]
            ELSE [ret |-> "true", force |-> frc, rest |-> rest]

\* Mutant: the request is sent whatever the confirmation returned.
Guarded_Always(ret) == ret # "raise"

\* Lines 238-239 and 313-316 (and 208, 214): the request is sent if
\* ask_for_confirm_or_skip() returned True.
Guarded(ret) == ret = "true"

\* One guarded request of the sync loop: the confirmation, then the add,
\* update or delete if it returned True.
GuardedWrite ==
    /\ apc = "sync"
    /\ Len(confirmations) < MaxAsked
    /\ force \/ stdin # <<>>
    /\ LET c == AmqAskForConfirmOrSkip(force, stdin)
       IN /\ force' = c.force
          /\ stdin' = c.rest
          /\ apc' = IF c.ret = "raise" THEN "raised" ELSE "sync"
          /\ confirmations' = Append(confirmations,
                 [answers |-> SubSeq(stdin, 1, Len(stdin) - Len(c.rest)),
                  forced |-> force, ret |-> c.ret, sent |-> Guarded(c.ret)])
    /\ UNCHANGED <<pc, from_labels, to_labels, from_remote, to_remote, next_id,
                   status_map, ignore_to_user_statuses, delete_unmapped,
                   entry_factory, verbosity, to_user_oauth_token, from_user_list,
                   mapped_media_ids, to_user_list, to_user_list_by_media_id,
                   i, j, show_title, run, log, environment, caching,
                   total_queries, transport>>

\* amq_list_syncer starts syncing, with or without --force, and the operator
\* has some answers ready.
InitAmq ==
    /\ SoundEnvironment
    /\ TransportIdle
    /\ CacheIdle
    /\ MirrorIdle
    /\ to_user_oauth_token = None
    /\ apc = "sync"
    /\ force \in BOOLEAN
    /\ stdin \in UNION {[1..n -> AmqAnswers] : n \in 0..MaxAnswers}
    /\ confirmations = <<>>

NextAmq == GuardedWrite

SpecAmq == InitAmq /\ [][NextAmq]_vars

\* ------------------------------------------------------------ C30
\* The answer is skip: s or skip, in any case, blanks around it.
IsSkip(answer) == Lower(Strip(answer)) \in {<<"s">>, Skip}

\* C30: a confirmation of amq_list_syncer whose last answer is skip, whatever
\* was answered before it at the same confirmation, returns False, and the
\* request it guards is not sent.
C30_SkipHonoured ==
    \A k \in DOMAIN confirmations :
        LET a == confirmations[k]
        IN (a.answers # <<>> /\ IsSkip(a.answers[Len(a.answers)])) =>
              /\ a.ret = "false"
              /\ ~a.sent

\* What the code keeps: skip as the only answer to a confirmation returns
\* False and the request is not sent.
C30_FirstAnswer ==
    \A k \in DOMAIN confirmations :
        LET a == confirmations[k]
        IN (Len(a.answers) = 1 /\ IsSkip(a.answers[1])) =>
              /\ a.ret = "false"
              /\ ~a.sent

\* What the code does after an answer the prompt does not offer: whatever is
\* answered next, it returns True and the request is sent, unless the next
\* answer stops the run.
C30_AsCoded ==
    \A k \in DOMAIN confirmations :
        LET a == confirmations[k]
        IN Len(a.answers) > 1 => (a.ret \in {"true", "raise"} /\ a.sent = (a.ret = "true"))

====
